---- MODULE Spec2Model ----
(***************************************************************************)
(* A model of gensound's transforms (src/transforms.py) and filters        *)
(* (src/gensound/filters.py).                                              *)
(*                                                                         *)
(* An Audio object is its sample matrix audio.audio: a sequence of         *)
(* channels, each a sequence of samples.  Samples and coefficients are     *)
(* exact rationals <<numerator, denominator>> in lowest terms (the code    *)
(* computes in float64; the model computes without rounding).  Python's    *)
(* 0-based index t is position t+1 of a TLA+ sequence.                     *)
(*                                                                         *)
(* A behaviour is one use of one transform: a constructor call (ctor holds *)
(* its arguments), then realise on the Audio object `audio`, and, where a  *)
(* transform instance is reused, realise on a second Audio object.         *)
(***************************************************************************)
EXTENDS Integers, Sequences, FiniteSets

VARIABLES
    ctor,       \* the constructor call: class name and arguments
    transform,  \* the transform instance's attributes (class "none" before construction)
    audio,      \* the sample matrix of the Audio object passed to realise
    input,      \* what that matrix held when the last realise was entered
    other,      \* the sample matrix of a second Audio object
    sample_rate,\* audio.sample_rate, in Hz (the same for both Audio objects)
    calls,      \* number of realise calls made so far
    pc,         \* "new", "ready" (constructed, audio not yet realised), "done", "raised"
    err         \* the exception that ended the program, "none" otherwise

vars == <<ctor, transform, audio, input, other, sample_rate, calls, pc, err>>

----------------------------------------------------------------------------
(* Bounds of the model *)

MaxLen == 5
MaxLen2 == 1
MaxTaps == 3
MaxFb == 2

----------------------------------------------------------------------------
(* Exact rational arithmetic *)

Abs(i) == IF i < 0 THEN -i ELSE i

RECURSIVE GCD(_, _)
GCD(a, b) == IF b = 0 THEN a ELSE GCD(b, a % b)

\* n/d in lowest terms with a positive denominator (d /= 0)
Rat(n, d) ==
    LET s == IF d < 0 THEN -1 ELSE 1
        g == GCD(Abs(n), Abs(d))
    IN  <<(s * n) \div g, (s * d) \div g>>

R(i) == <<i, 1>>
Zero == R(0)
One == R(1)
RAdd(p, q) == Rat(p[1] * q[2] + q[1] * p[2], p[2] * q[2])
RSub(p, q) == Rat(p[1] * q[2] - q[1] * p[2], p[2] * q[2])
RMul(p, q) == Rat(p[1] * q[1], p[2] * q[2])
RDiv(p, q) == Rat(p[1] * q[2], p[2] * q[1])
RNeg(p) == <<-p[1], p[2]>>
RAbs(p) == <<Abs(p[1]), p[2]>>
RLe(p, q) == p[1] * q[2] <= q[1] * p[2]
RMin(p, q) == IF RLe(p, q) THEN p ELSE q
RMax(p, q) == IF RLe(p, q) THEN q ELSE p
RSign(p) == IF p[1] > 0 THEN One ELSE IF p[1] < 0 THEN R(-1) ELSE Zero

RECURSIVE RSum(_)
RSum(s) == IF s = <<>> THEN Zero ELSE RAdd(s[1], RSum(Tail(s)))

\* the sequences over S of length lo..hi
SeqsOf(S, lo, hi) == UNION {[1..n -> S] : n \in lo..hi}
RSeq(s) == [i \in 1..Len(s) |-> R(s[i])]

----------------------------------------------------------------------------
(* The Audio object's sample matrix *)

NumChannels(a) == Len(a)
Length(a) == Len(a[1])
Zeros(c, n) == [i \in 1..c |-> [t \in 1..n |-> Zero]]
\* audio.audio[c, t] with 0-based c and t
At(a, c, t) == a[c + 1][t + 1]

Matrices(c, lo, hi, S) == UNION {[1..c -> [1..n -> {R(v) : v \in S}]] : n \in lo..hi}

NoTransform == [class |-> "none"]

\* the sample rates of the Audio objects, in Hz
SampleRates == {1000, 2000}

\* an optional value: <<>> is Python's None, <<v>> is v
None == <<>>
Some(v) == <<v>>
\* Python's `x or 0` for x an int or None
Or0(x) == IF x = None THEN 0 ELSE x[1]

----------------------------------------------------------------------------
(* FIR, MovingAverage *)

\* FIR.__init__: total = sum(coefficients); h = [c/total for c in coefficients].
\* Dividing by a zero total raises ZeroDivisionError; with no coefficient
\* there is no division.
FIR_init_raises(coefficients) ==
    Len(coefficients) > 0 /\ RSum(coefficients) = Zero

FIR_h(coefficients) ==
    LET total == RSum(coefficients)
    IN  [i \in 1..Len(coefficients) |-> RDiv(coefficients[i], total)]

FIR_init ==
    /\ pc = "new"
    /\ ctor.class = "FIR"
    /\ IF FIR_init_raises(ctor.coefficients)
       THEN /\ err' = "ZeroDivisionError"
            /\ pc' = "raised"
            /\ UNCHANGED transform
       ELSE /\ transform' = [class |-> "FIR", h |-> FIR_h(ctor.coefficients)]
            /\ pc' = "ready"
            /\ UNCHANGED err
    /\ UNCHANGED <<ctor, audio, input, other, sample_rate, calls>>

\* MovingAverage.__init__: h = [1/width]*width; 1/0 raises ZeroDivisionError
MovingAverage_h(width) == [i \in 1..width |-> Rat(1, width)]

MovingAverage_init ==
    /\ pc = "new"
    /\ ctor.class = "MovingAverage"
    /\ IF ctor.width = 0
       THEN /\ err' = "ZeroDivisionError"
            /\ pc' = "raised"
            /\ UNCHANGED transform
       ELSE /\ transform' = [class |-> "MovingAverage", h |-> MovingAverage_h(ctor.width)]
            /\ pc' = "ready"
            /\ UNCHANGED err
    /\ UNCHANGED <<ctor, audio, input, other, sample_rate, calls>>

\* FIR_parallel with every copy shifted one sample further: parallel[i, :, i+1:n+i+1]
FIR_parallel_shifted(h, a) ==
    LET n == Length(a)
    IN  [i \in 1..Len(h) |->
          [c \in 1..NumChannels(a) |->
            [t \in 1..(n + Len(h) - 1) |->
               IF i + 1 <= t /\ t < n + i + 1 THEN RMul(h[i], a[c][t - i]) ELSE Zero]]]

\* parallel[i, :, i:n+i] = h[i]*audio.audio, on zeros of shape (len(h), channels, n+len(h)-1)
FIR_parallel(h, a) ==
    LET n == Length(a)
    IN  [i \in 1..Len(h) |->
          [c \in 1..NumChannels(a) |->
            [t \in 1..(n + Len(h) - 1) |->
               IF i <= t /\ t < n + i THEN RMul(h[i], a[c][t - i + 1]) ELSE Zero]]]

\* np.sum(parallel, axis=0)
RECURSIVE SumAxis0(_, _, _)
SumAxis0(parallel, c, t) ==
    IF parallel = <<>> THEN Zero
    ELSE RAdd(parallel[1][c][t], SumAxis0(Tail(parallel), c, t))

\* FIR._parallel_copies: the value assigned to audio.audio[:,:], or the error.
\* With no taps the sum has n-1 columns: np.zeros raises for n = 0, and the
\* assignment broadcasts only a single column (n = 2).
FIR_parallel_copies(h, a) ==
    LET n == Length(a)
        parallel == FIR_parallel(h, a)
    IN  IF Len(h) = 0
        THEN IF n = 2
             THEN [err |-> "none", audio |-> Zeros(NumChannels(a), n)]
             ELSE [err |-> "ValueError", audio |-> a]
        ELSE [err |-> "none",
              audio |-> [c \in 1..NumChannels(a) |->
                           [t \in 1..n |-> SumAxis0(parallel, c, t)]]]

FIR_realise ==
    /\ pc = "ready"
    /\ transform.class \in {"FIR", "MovingAverage"}
    /\ LET r == FIR_parallel_copies(transform.h, audio)
       IN  /\ audio' = r.audio
           /\ err' = r.err
           /\ pc' = IF r.err = "none" THEN "done" ELSE "raised"
    /\ input' = audio
    /\ calls' = calls + 1
    /\ UNCHANGED <<ctor, transform, other, sample_rate>>

----------------------------------------------------------------------------
(* IIR *)

\* IIR.__init__: b = [c/feedback[0] for c in feedforward],
\*               a = [c/feedback[0] for c in feedback].
\* feedback[0] = 0 raises ZeroDivisionError at the first division.
IIR_init_raises(feedforward, feedback) == feedback[1] = Zero

IIR_b(feedforward, feedback) ==
    [i \in 1..Len(feedforward) |-> RDiv(feedforward[i], feedback[1])]

IIR_a(feedforward, feedback) ==
    [i \in 1..Len(feedback) |-> RDiv(feedback[i], feedback[1])]

IIR_init ==
    /\ pc = "new"
    /\ ctor.class = "IIR"
    /\ IF IIR_init_raises(ctor.feedforward, ctor.feedback)
       THEN /\ err' = "ZeroDivisionError"
            /\ pc' = "raised"
            /\ UNCHANGED transform
       ELSE /\ transform' = [class |-> "IIR",
                             b |-> IIR_b(ctor.feedforward, ctor.feedback),
                             a |-> IIR_a(ctor.feedforward, ctor.feedback)]
            /\ pc' = "ready"
            /\ UNCHANGED err
    /\ UNCHANGED <<ctor, audio, input, other, sample_rate, calls>>

\* x = np.pad(audio.audio, ((0,0),(len(a)-1,0))), one channel of it
IIR_pad(a, ch) ==
    [t \in 1..(Len(ch) + Len(a) - 1) |->
        IF t <= Len(a) - 1 THEN Zero ELSE ch[t - (Len(a) - 1)]]

\* x[:, j] for a possibly negative j: numpy counts a negative index from the end
Wrap(x, j) == IF j < 0 THEN x[Len(x) + j + 1] ELSE x[j + 1]

\* the value of y[:, i] after the two inner loops (y[:, i] is 0 before them)
IIR_step(b, a, x, y, i) ==
    RSub(RSum([k \in 1..Len(b) |-> RMul(b[k], Wrap(x, i - (k - 1)))]),
         RSum([m \in 1..(Len(a) - 1) |-> RMul(a[m + 1], y[i - m + 1])]))

\* for i in range(len(a), x.shape[1]), on one channel
RECURSIVE IIR_loop(_, _, _, _, _)
IIR_loop(b, a, x, y, i) ==
    IF i >= Len(x) THEN y
    ELSE IIR_loop(b, a, x, [y EXCEPT ![i + 1] = IIR_step(b, a, x, y, i)], i + 1)

\* x[:, i-n] is out of bounds when i-n < -x.shape[1]
IIR_index_error(b, a, n) ==
    \E i \in Len(a)..(n + Len(a) - 2) : \E k \in 0..(Len(b) - 1) :
        i - k < -(n + Len(a) - 1)

\* IIR.realise: the value assigned to audio.audio[:,:] (y[:, :audio.length]), or the error
IIR_compute(b, a, au) ==
    LET n == Length(au)
    IN  IF IIR_index_error(b, a, n)
        THEN [err |-> "IndexError", audio |-> au]
        ELSE [err |-> "none",
              audio |-> [c \in 1..NumChannels(au) |->
                  LET x == IIR_pad(a, au[c])
                      y == IIR_loop(b, a, x, [t \in 1..Len(x) |-> Zero], Len(a))
                  IN  [t \in 1..n |-> y[t]]]]

IIR_realise ==
    /\ pc = "ready"
    /\ transform.class = "IIR"
    /\ LET r == IIR_compute(transform.b, transform.a, audio)
       IN  /\ audio' = r.audio
           /\ err' = r.err
           /\ pc' = IF r.err = "none" THEN "done" ELSE "raised"
    /\ input' = audio
    /\ calls' = calls + 1
    /\ UNCHANGED <<ctor, transform, other, sample_rate>>

----------------------------------------------------------------------------
(* Filters: construct one filter, realise it on one buffer *)

FIRCoefficients == {-1, 1, 2}
FeedForward == {1, -2}
FeedbackHead == {0, 1, 2}
FeedbackTail == {1}

FIRCtors ==
    {[class |-> "FIR", coefficients |-> RSeq(s)] : s \in SeqsOf(FIRCoefficients, 0, MaxTaps)}
MovingAverageCtors == {[class |-> "MovingAverage", width |-> w] : w \in 0..MaxTaps}
Feedbacks ==
    {[i \in 1..n |-> IF i = 1 THEN R(h) ELSE R(1)] : n \in 1..MaxFb, h \in FeedbackHead}
IIRCtors ==
    {[class |-> "IIR", feedforward |-> RSeq(s), feedback |-> f] :
        s \in SeqsOf(FeedForward, 1, MaxTaps), f \in Feedbacks}

FilterBuffers ==
    Matrices(1, 0, MaxLen, {0, 1}) \cup Matrices(2, 1, MaxLen2, {-2, 0, 1})

InitFilter ==
    /\ ctor \in FIRCtors \cup MovingAverageCtors \cup IIRCtors
    /\ transform = NoTransform
    /\ audio \in FilterBuffers
    /\ input = audio
    /\ other = <<>>
    /\ sample_rate \in SampleRates
    /\ calls = 0
    /\ pc = "new"
    /\ err = "none"

NextFilter ==
    \/ FIR_init
    \/ MovingAverage_init
    \/ IIR_init
    \/ FIR_realise
    \/ IIR_realise

SpecFilter == InitFilter /\ [][NextFilter]_vars

----------------------------------------------------------------------------
(* Combine *)

\* utils.num_samples: a duration in milliseconds as a number of samples
num_samples(duration, rate) == (duration * rate) \div 1000

\* utils.samples_slice: a slice of times (ms) as a slice of samples
samples_slice(time_slice, rate) ==
    [start |-> IF time_slice.start = None THEN None
               ELSE Some(num_samples(time_slice.start[1], rate)),
     stop  |-> IF time_slice.stop = None THEN None
               ELSE Some(num_samples(time_slice.stop[1], rate))]

\* the 0-based indices a[start:stop] selects on an axis of the given size
SliceRange(sl, size) ==
    LET lo == IF Or0(sl.start) < size THEN Or0(sl.start) ELSE size
        hi == IF sl.stop = None \/ sl.stop[1] > size THEN size ELSE sl.stop[1]
    IN  lo..(hi - 1)

\* Audio.to_channels: existing content kept, new channels zero-filled
Audio_to_channels(a, k) ==
    [c \in 1..k |-> IF c <= NumChannels(a) THEN a[c] ELSE [t \in 1..Length(a) |-> Zero]]

\* Audio.to_length: extended with silence when shorter, otherwise left alone
Audio_to_length(a, n) ==
    IF Length(a) >= n THEN a
    ELSE [c \in 1..NumChannels(a) |-> [t \in 1..n |-> IF t <= Length(a) THEN a[c][t] ELSE Zero]]

\* max_channel = max(0, channel_slice.start or 0, (channel_slice.stop or 0)-1)
Combine_max_channel(channel_slice) ==
    LET s == Or0(channel_slice.start)
        e == Or0(channel_slice.stop) - 1
        m == IF s >= e THEN s ELSE e
    IN  IF m >= 0 THEN m ELSE 0

\* if max_channel >= audio.num_channels(): audio.to_channels(max_channel+1)
Combine_channels(channel_slice, a) ==
    IF Combine_max_channel(channel_slice) >= NumChannels(a)
    THEN Audio_to_channels(a, Combine_max_channel(channel_slice) + 1)
    ELSE a

\* Combine_zero with the assignment left out
Combine_zero_skipped(a, channel_slice, sample_slice) == a

\* audio.audio[self.channel_slice, sample_slice] = 0
Combine_zero(a, channel_slice, sample_slice) ==
    [c \in 1..NumChannels(a) |-> [t \in 1..Length(a) |->
        IF /\ (c - 1) \in SliceRange(channel_slice, NumChannels(a))
           /\ (t - 1) \in SliceRange(sample_slice, Length(a))
        THEN Zero ELSE a[c][t]]]

\* the row of new_audio added to row k of a target of several rows (numpy
\* broadcasts a single row to every row of the target)
BroadcastRow(new_audio, k) == IF NumChannels(new_audio) = 1 THEN new_audio[1] ELSE new_audio[k]

\* Combine_mix assigning (=) where the code adds (+=)
Combine_mix_assign(a, channel_slice, start_sample, new_audio) ==
    LET chans == SliceRange(channel_slice, NumChannels(a))
        first == CHOOSE c \in chans : \A d \in chans : c <= d
    IN  [c \in 1..NumChannels(a) |-> [t \in 1..Length(a) |->
            IF (c - 1) \in chans /\ t - 1 >= start_sample
                                 /\ t - 1 < start_sample + Length(new_audio)
            THEN BroadcastRow(new_audio, c - first)[t - start_sample]
            ELSE a[c][t]]]

\* audio.audio[self.channel_slice, start_sample:start_sample+new_audio.length()] += new_audio.audio
Combine_mix(a, channel_slice, start_sample, new_audio) ==
    LET chans == SliceRange(channel_slice, NumChannels(a))
        first == CHOOSE c \in chans : \A d \in chans : c <= d
    IN  [c \in 1..NumChannels(a) |-> [t \in 1..Length(a) |->
            IF (c - 1) \in chans /\ t - 1 >= start_sample
                                 /\ t - 1 < start_sample + Length(new_audio)
            THEN RAdd(a[c][t], BroadcastRow(new_audio, c - first)[t - start_sample])
            ELSE a[c][t]]]

\* the += raises ValueError unless new_audio has one row or as many as the target
Combine_shape_error(a, channel_slice, new_audio) ==
    LET k == Cardinality(SliceRange(channel_slice, NumChannels(a)))
    IN  NumChannels(new_audio) # 1 /\ NumChannels(new_audio) # k

\* sample_slice.start if sample_slice.start is not None else 0
Combine_start_sample(time_slice, rate) == Or0(samples_slice(time_slice, rate).start)

\* Combine.realise: the Audio's matrix when the call ends, and the error if it raised
Combine_compute(channel_slice, time_slice, new_audio, a, rate) ==
    LET sample_slice == samples_slice(time_slice, rate)
        a1 == Combine_channels(channel_slice, a)
        a2 == Combine_zero(a1, channel_slice, sample_slice)
        start_sample == Combine_start_sample(time_slice, rate)
        a3 == Audio_to_length(a2, start_sample + Length(new_audio))
    IN  IF Combine_shape_error(a3, channel_slice, new_audio)
        THEN [err |-> "ValueError", audio |-> a3]
        ELSE [err |-> "none", audio |-> Combine_mix(a3, channel_slice, start_sample, new_audio)]

Combine_init ==
    /\ pc = "new"
    /\ ctor.class = "Combine"
    /\ transform' = [class |-> "Combine", channel_slice |-> ctor.channel_slice,
                     time_slice |-> ctor.time_slice, signal |-> ctor.signal]
    /\ pc' = "ready"
    /\ UNCHANGED <<ctor, audio, input, other, sample_rate, calls, err>>

Combine_realise ==
    /\ pc = "ready"
    /\ transform.class = "Combine"
    /\ LET r == Combine_compute(transform.channel_slice, transform.time_slice,
                                transform.signal, audio, sample_rate)
       IN  /\ audio' = r.audio
           /\ err' = r.err
           /\ pc' = IF r.err = "none" THEN "done" ELSE "raised"
    /\ input' = audio
    /\ calls' = calls + 1
    /\ UNCHANGED <<ctor, transform, other, sample_rate>>

----------------------------------------------------------------------------
(* Combine: embed one realised sub-signal into one parent buffer *)

MaxParent == 2
MaxSub == 2

\* a c-channel, n-sample matrix whose samples are all different: seed, seed+1, ...
Ramp(c, n, seed) == [i \in 1..c |-> [t \in 1..n |-> R(seed + 10 * (i - 1) + (t - 1))]]

Optional(S) == {None} \cup {Some(v) : v \in S}

ChannelSlices ==
    {sl \in [start : Optional({0, 1}), stop : Optional({1, 2})] :
        sl.stop = None \/ Or0(sl.start) < sl.stop[1]}
TimeSlices == [start : Optional({0, 1, 2}), stop : Optional({1, 2, 3})]

CombineCtors ==
    {[class |-> "Combine", channel_slice |-> cs, time_slice |-> ts, signal |-> Ramp(c, n, 100)] :
        cs \in ChannelSlices, ts \in TimeSlices, c \in 1..2, n \in 0..MaxSub}

InitCombine ==
    /\ ctor \in CombineCtors
    /\ transform = NoTransform
    /\ audio \in {Ramp(c, n, seed) : c \in 1..2, n \in 0..MaxParent, seed \in {1, -40}}
    /\ input = audio
    /\ other = <<>>
    /\ sample_rate \in SampleRates
    /\ calls = 0
    /\ pc = "new"
    /\ err = "none"

NextCombine ==
    \/ Combine_init
    \/ Combine_realise

SpecCombine == InitCombine /\ [][NextCombine]_vars

----------------------------------------------------------------------------
(* Claims about Combine, checked under SpecCombine *)

\* the call's time offset t, sub-signal length L and parent length N
CombineT == Combine_start_sample(transform.time_slice, sample_rate)
CombineL == Length(transform.signal)
CombineN == Length(input)
\* the parent's channels after any channel expansion, its target channels, and
\* the samples of the parent the time slice selects (all 0-based)
CombineParent == Combine_channels(transform.channel_slice, input)
CombineTarget == SliceRange(transform.channel_slice, NumChannels(CombineParent))
CombineSliced == SliceRange(samples_slice(transform.time_slice, sample_rate), CombineN)
CombineCalled == calls = 1 /\ transform.class = "Combine"

\* the parent's length after the call: t+L if N < t+L (the gap [N, t) zero), else N
CombineLengths ==
    /\ CombineN < CombineT + CombineL =>
          /\ Length(audio) = CombineT + CombineL
          /\ \A c \in 1..NumChannels(audio) : \A s \in CombineN..(CombineT - 1) :
                At(audio, c - 1, s) = Zero
    /\ CombineN >= CombineT + CombineL => Length(audio) = CombineN

\* C4 as stated: the parent's length is max(N, t+L), and for N >= t+L every
\* parent sample outside [t, t+L) is as before the call, whatever the time slice.
C4_CombineFrameOriginal ==
    CombineCalled =>
        /\ CombineLengths
        /\ CombineN >= CombineT + CombineL =>
              \A c \in 1..NumChannels(input) : \A s \in 0..(CombineN - 1) :
                  (s < CombineT \/ s >= CombineT + CombineL)
                      => At(audio, c - 1, s) = At(input, c - 1, s)

\* C4 as amended: the parent's length is max(N, t+L); a parent sample outside
\* [t, t+L) is as before the call unless it lies in a target channel inside the
\* time slice, where it is 0 after the call.
C4_CombineFrame ==
    CombineCalled =>
        /\ CombineLengths
        /\ \A c \in 1..NumChannels(input) : \A s \in 0..(CombineN - 1) :
              (s < CombineT \/ s >= CombineT + CombineL) =>
                  At(audio, c - 1, s) =
                      (IF (c - 1) \in CombineTarget /\ s \in CombineSliced
                       THEN Zero ELSE At(input, c - 1, s))

\* an open-ended slice on a parent longer than t+L: the tail [t+L, N) is cleared
C4_Witness ==
    /\ CombineCalled
    /\ pc = "done"
    /\ transform.time_slice.stop = None
    /\ CombineL >= 1
    /\ CombineN > CombineT + CombineL
    /\ \E c \in 1..NumChannels(input) :
          /\ (c - 1) \in CombineTarget
          /\ At(input, c - 1, CombineN - 1) # Zero
          /\ At(audio, c - 1, CombineN - 1) = Zero

\* the parent's sample before the call, 0 where the parent was extended
CombineBefore(c, s) ==
    IF c <= NumChannels(input) /\ s < CombineN THEN At(input, c - 1, s) ELSE Zero

\* the sub-signal's sample mixed into target channel c (0-based) at time s
CombineSub(c, s) ==
    LET first == CHOOSE k \in CombineTarget : \A d \in CombineTarget : k <= d
    IN  BroadcastRow(transform.signal, c - first + 1)[s - CombineT + 1]

\* C5 as stated: in the target channels and for s in [t, t+L) the parent's
\* sample after the call is its sample before the call plus the sub-signal's.
C5_CombineAdditiveOriginal ==
    (CombineCalled /\ pc = "done") =>
        \A c \in CombineTarget : \A s \in CombineT..(CombineT + CombineL - 1) :
            At(audio, c, s) = RAdd(CombineBefore(c + 1, s), CombineSub(c, s))

\* C5 as amended: in the target channels and for s in [t, t+L) the parent's
\* sample after the call is the sub-signal's sample alone where s lies inside
\* the time slice (the parent's content is erased there), and the parent's
\* sample before the call plus the sub-signal's where s lies outside it.
C5_CombineMix ==
    (CombineCalled /\ pc = "done") =>
        \A c \in CombineTarget : \A s \in CombineT..(CombineT + CombineL - 1) :
            At(audio, c, s) =
                (IF s \in CombineSliced THEN CombineSub(c, s)
                 ELSE RAdd(CombineBefore(c + 1, s), CombineSub(c, s)))

\* a sub-signal longer than the time slice over existing parent content: one
\* sample replaced inside the slice, one added to past the slice
C5_Witness ==
    /\ CombineCalled
    /\ pc = "done"
    /\ \E c \in CombineTarget : \E s1, s2 \in CombineT..(CombineT + CombineL - 1) :
          /\ s1 \in CombineSliced
          /\ CombineBefore(c + 1, s1) # Zero
          /\ At(audio, c, s1) = CombineSub(c, s1)
          /\ s2 \notin CombineSliced
          /\ CombineBefore(c + 1, s2) # Zero
          /\ At(audio, c, s2) = RAdd(CombineBefore(c + 1, s2), CombineSub(c, s2))

----------------------------------------------------------------------------
(* Repan *)

\* audio.audio[channel, :] for a possibly negative channel
Repan_source(a, channel) ==
    IF channel < 0 THEN a[NumChannels(a) + channel + 1] ELSE a[channel + 1]

\* new_audio[i,:] = audio.audio[channel,:] raises IndexError for a row or a
\* source channel the matrix does not have; a None entry is skipped before it
Repan_index_error(channels, a) ==
    \E i \in 1..Len(channels) :
        /\ channels[i] # None
        /\ \/ i > NumChannels(a)
           \/ channels[i][1] >= NumChannels(a)
           \/ channels[i][1] < -NumChannels(a)

\* Repan copying in place, into audio.audio itself, one channel after the other
RECURSIVE Repan_in_place(_, _, _)
Repan_in_place(channels, a, i) ==
    IF i > NumChannels(a) THEN a
    ELSE Repan_in_place(channels,
            [a EXCEPT ![i] = IF i > Len(channels) \/ channels[i] = None
                             THEN [t \in 1..Length(a) |-> Zero]
                             ELSE Repan_source(a, channels[i][1])],
            i + 1)

Repan_new_audio_in_place(channels, a) == Repan_in_place(channels, a, 1)

\* new_audio: zeros of audio's shape, row i then taken from audio.audio[channels[i]]
Repan_new_audio(channels, a) ==
    [i \in 1..NumChannels(a) |->
        IF i > Len(channels) \/ channels[i] = None
        THEN [t \in 1..Length(a) |-> Zero]
        ELSE Repan_source(a, channels[i][1])]

\* Repan.realise: the Audio's matrix when the call ends, and the error if it raised
Repan_compute(channels, a) ==
    IF Repan_index_error(channels, a)
    THEN [err |-> "IndexError", audio |-> a]
    ELSE [err |-> "none", audio |-> Repan_new_audio(channels, a)]

Repan_init ==
    /\ pc = "new"
    /\ ctor.class = "Repan"
    /\ transform' = [class |-> "Repan", channels |-> ctor.channels]
    /\ pc' = "ready"
    /\ UNCHANGED <<ctor, audio, input, other, sample_rate, calls, err>>

Repan_realise ==
    /\ pc = "ready"
    /\ transform.class = "Repan"
    /\ LET r == Repan_compute(transform.channels, audio)
       IN  /\ audio' = r.audio
           /\ err' = r.err
           /\ pc' = IF r.err = "none" THEN "done" ELSE "raised"
    /\ input' = audio
    /\ calls' = calls + 1
    /\ UNCHANGED <<ctor, transform, other, sample_rate>>

----------------------------------------------------------------------------
(* Repan: one mapping realised on one buffer *)

MaxChannels == 2

RepanCtors ==
    {[class |-> "Repan", channels |-> m] :
        m \in SeqsOf(Optional(0..MaxChannels), 0, MaxChannels + 1)}

InitRepan ==
    /\ ctor \in RepanCtors
    /\ transform = NoTransform
    /\ audio \in {Ramp(c, n, seed) : c \in 1..MaxChannels, n \in 0..2, seed \in {0, 1}}
                    \cup Matrices(2, 1, 1, {0, 3})
    /\ input = audio
    /\ other = <<>>
    /\ sample_rate \in SampleRates
    /\ calls = 0
    /\ pc = "new"
    /\ err = "none"

NextRepan ==
    \/ Repan_init
    \/ Repan_realise

SpecRepan == InitRepan /\ [][NextRepan]_vars

----------------------------------------------------------------------------
(* Claims about Repan, checked under SpecRepan *)

\* C6: Repan.realise with the identity mapping leaves the buffer unchanged; for
\* any mapping, output channel i is the original content of source channel
\* mapping[i], and all zero where mapping[i] is None.
C6_RepanMapping ==
    (pc = "done" /\ transform.class = "Repan") =>
        /\ NumChannels(audio) = NumChannels(input)
        /\ Length(audio) = Length(input)
        /\ \A i \in 1..Len(transform.channels) :
              IF transform.channels[i] = None
              THEN i <= NumChannels(audio) =>
                      \A t \in 1..Length(input) : audio[i][t] = Zero
              ELSE audio[i] = input[transform.channels[i][1] + 1]
        /\ transform.channels = [i \in 1..NumChannels(input) |-> Some(i - 1)]
              => audio = input

\* Repan(1, 0) on two channels of different content: both arrive intact
C6_Witness ==
    /\ pc = "done"
    /\ transform.class = "Repan"
    /\ transform.channels = <<Some(1), Some(0)>>
    /\ NumChannels(input) = 2
    /\ input[1] # input[2]
    /\ audio = <<input[2], input[1]>>

\* the mapping repeats a source channel among its non-None entries, or has
\* not one entry per channel of the buffer
Repan_not_permutation(channels, a) ==
    \/ Len(channels) # NumChannels(a)
    \/ \E i, j \in 1..Len(channels) :
          i # j /\ channels[i] # None /\ channels[i] = channels[j]

\* C12: Repan.realise with a mapping that is not permutation-shaped for the
\* buffer raises, and produces no output buffer.
C12_RepanRejects ==
    (/\ ctor.class = "Repan"
     /\ calls > 0
     /\ Repan_not_permutation(ctor.channels, input))
        => (pc = "raised" /\ audio = input)

----------------------------------------------------------------------------
(* Curve, DB_to_Linear *)

\* A parameter of Gain, Amplitude or Pan is a number [kind |-> "number", value],
\* a Curve [kind |-> "Curve", f, endpoint] or anything else [kind |-> "str"].
\* A Curve lasts Len(f) milliseconds and has the value f[j] during its j-th
\* millisecond; endpoint is the value Curve.endpoint() returns.
Number(v) == [kind |-> "number", value |-> v]
Curve(f, endpoint) == [kind |-> "Curve", f |-> f, endpoint |-> endpoint]
Unsupported == [kind |-> "str"]

\* Curve.num_samples(sample_rate): the curve's duration in samples
Curve_num_samples(curve, rate) == num_samples(Len(curve.f), rate)

\* Curve.flatten(sample_rate): the curve's value at each of its samples
Curve_flatten(curve, rate) ==
    [t \in 1..Curve_num_samples(curve, rate) |-> curve.f[((t - 1) * 1000) \div rate + 1]]

\* utils.DB_to_Linear: 10^(dB/20), for dB a multiple of 20
DB_to_Linear(dB) ==
    CASE dB % 20 = 0 /\ dB >= 0 -> R(10 ^ (dB \div 20))
      [] dB % 20 = 0 /\ dB < 0 -> Rat(1, 10 ^ ((-dB) \div 20))

\* audio.audio[i, 0:k] *= vals raises ValueError when the k values do not fit
\* the slice: the buffer is shorter than k, and k is not 1 (a single value broadcasts)
Curve_shape_error(k, n) == k > n /\ k # 1

----------------------------------------------------------------------------
(* Gain, Amplitude *)

\* one channel after audio.audio[i, 0:k] *= vals and audio.audio[i, k:] *= tail
ScaleChannel(ch, vals, tail) ==
    [t \in 1..Len(ch) |->
        IF t <= Len(vals) THEN RMul(ch[t], vals[t]) ELSE RMul(ch[t], tail)]

\* Gain_curve multiplying the whole channel, not only [k:], by the endpoint
Gain_curve_whole_tail(ch, curve, rate) ==
    LET vals == [t \in 1..Curve_num_samples(curve, rate) |->
                    DB_to_Linear(Curve_flatten(curve, rate)[t])]
        tail == DB_to_Linear(curve.endpoint)
    IN  [t \in 1..Len(ch) |->
            IF t <= Len(vals) THEN RMul(RMul(ch[t], vals[t]), tail) ELSE RMul(ch[t], tail)]

\* Gain.realise, the Curve branch on one channel
Gain_curve(ch, curve, rate) ==
    ScaleChannel(ch,
                 [t \in 1..Curve_num_samples(curve, rate) |->
                     DB_to_Linear(Curve_flatten(curve, rate)[t])],
                 DB_to_Linear(curve.endpoint))

\* Amplitude.realise, the Curve branch on one channel
Amplitude_curve(ch, curve, rate) ==
    ScaleChannel(ch, Curve_flatten(curve, rate), curve.endpoint)

\* for (i, dB) in enumerate(self.dBs), from the i-th parameter (1-based) on
RECURSIVE Gain_loop(_, _, _, _)
Gain_loop(dBs, a, rate, i) ==
    IF i > Len(dBs) THEN [err |-> "none", audio |-> a]
    ELSE IF dBs[i].kind = "number"
    THEN IF i > NumChannels(a) THEN [err |-> "IndexError", audio |-> a]
         ELSE Gain_loop(dBs,
                 [a EXCEPT ![i] = [t \in 1..Length(a) |-> RMul(a[i][t], DB_to_Linear(dBs[i].value))]],
                 rate, i + 1)
    ELSE IF dBs[i].kind = "Curve"
    THEN IF i > NumChannels(a) THEN [err |-> "IndexError", audio |-> a]
         ELSE IF Curve_shape_error(Curve_num_samples(dBs[i], rate), Length(a))
         THEN [err |-> "ValueError", audio |-> a]
         ELSE Gain_loop(dBs, [a EXCEPT ![i] = Gain_curve(a[i], dBs[i], rate)], rate, i + 1)
    ELSE [err |-> "TypeError", audio |-> a]

\* for (i, amp) in enumerate(self.amps), from the i-th parameter (1-based) on
RECURSIVE Amplitude_loop(_, _, _, _)
Amplitude_loop(amps, a, rate, i) ==
    IF i > Len(amps) THEN [err |-> "none", audio |-> a]
    ELSE IF amps[i].kind = "number"
    THEN IF i > NumChannels(a) THEN [err |-> "IndexError", audio |-> a]
         ELSE Amplitude_loop(amps,
                 [a EXCEPT ![i] = [t \in 1..Length(a) |-> RMul(a[i][t], amps[i].value)]],
                 rate, i + 1)
    ELSE IF amps[i].kind = "Curve"
    THEN IF i > NumChannels(a) THEN [err |-> "IndexError", audio |-> a]
         ELSE IF Curve_shape_error(Curve_num_samples(amps[i], rate), Length(a))
         THEN [err |-> "ValueError", audio |-> a]
         ELSE Amplitude_loop(amps, [a EXCEPT ![i] = Amplitude_curve(a[i], amps[i], rate)],
                             rate, i + 1)
    ELSE [err |-> "TypeError", audio |-> a]

Gain_init ==
    /\ pc = "new"
    /\ ctor.class = "Gain"
    /\ transform' = [class |-> "Gain", dBs |-> ctor.dBs]
    /\ pc' = "ready"
    /\ UNCHANGED <<ctor, audio, input, other, sample_rate, calls, err>>

Amplitude_init ==
    /\ pc = "new"
    /\ ctor.class = "Amplitude"
    /\ transform' = [class |-> "Amplitude", amps |-> ctor.amps]
    /\ pc' = "ready"
    /\ UNCHANGED <<ctor, audio, input, other, sample_rate, calls, err>>

Gain_realise ==
    /\ pc = "ready"
    /\ transform.class = "Gain"
    /\ LET r == Gain_loop(transform.dBs, audio, sample_rate, 1)
       IN  /\ audio' = r.audio
           /\ err' = r.err
           /\ pc' = IF r.err = "none" THEN "done" ELSE "raised"
    /\ input' = audio
    /\ calls' = calls + 1
    /\ UNCHANGED <<ctor, transform, other, sample_rate>>

Amplitude_realise ==
    /\ pc = "ready"
    /\ transform.class = "Amplitude"
    /\ LET r == Amplitude_loop(transform.amps, audio, sample_rate, 1)
       IN  /\ audio' = r.audio
           /\ err' = r.err
           /\ pc' = IF r.err = "none" THEN "done" ELSE "raised"
    /\ input' = audio
    /\ calls' = calls + 1
    /\ UNCHANGED <<ctor, transform, other, sample_rate>>

----------------------------------------------------------------------------
(* Levels: one Gain or Amplitude realised on one buffer *)

MaxCurve == 2
MaxLevelLen == 3

GainParams ==
    {Number(v) : v \in {-20, 0, 20}}
        \cup {Curve(f, -20) : f \in SeqsOf({0, 20}, 0, MaxCurve)}
        \cup {Unsupported}
AmplitudeParams ==
    {Number(v) : v \in {One, Rat(1, 2), R(-2)}}
        \cup {Curve(f, R(3)) : f \in SeqsOf({Rat(1, 2), R(2)}, 0, MaxCurve)}
        \cup {Unsupported}

GainCtors == {[class |-> "Gain", dBs |-> ps] : ps \in SeqsOf(GainParams, 0, 2)}
AmplitudeCtors == {[class |-> "Amplitude", amps |-> ps] : ps \in SeqsOf(AmplitudeParams, 0, 2)}

InitLevels ==
    /\ ctor \in GainCtors \cup AmplitudeCtors
    /\ transform = NoTransform
    /\ audio \in {Ramp(c, n, seed) : c \in 1..2, n \in 0..MaxLevelLen, seed \in {1, -3}}
    /\ input = audio
    /\ other = <<>>
    /\ sample_rate \in SampleRates
    /\ calls = 0
    /\ pc = "new"
    /\ err = "none"

NextLevels ==
    \/ Gain_init
    \/ Amplitude_init
    \/ Gain_realise
    \/ Amplitude_realise

SpecLevels == InitLevels /\ [][NextLevels]_vars

----------------------------------------------------------------------------
(* Claims about Gain and Amplitude, checked under SpecLevels *)

LevelParams == IF transform.class = "Gain" THEN transform.dBs ELSE transform.amps
\* a parameter's value as a linear factor
LevelLinear(v) == IF transform.class = "Gain" THEN DB_to_Linear(v) ELSE v

\* every parameter has a channel and is a number or a Curve no longer than the buffer
LevelFits ==
    /\ Len(LevelParams) <= NumChannels(input)
    /\ \A i \in 1..Len(LevelParams) :
          \/ LevelParams[i].kind = "number"
          \/ /\ LevelParams[i].kind = "Curve"
             /\ Curve_num_samples(LevelParams[i], sample_rate) <= Length(input)

\* C9: for a Curve parameter on channel i of k <= n flattened samples, Gain and
\* Amplitude multiply sample t by the curve's t-th flattened value (from dB for
\* Gain) for t < k and by the curve's endpoint value for t >= k, each sample by
\* exactly one factor; channels without a parameter are left unchanged.
C9_CurveLevels ==
    (calls = 1 /\ transform.class \in {"Gain", "Amplitude"} /\ LevelFits) =>
        /\ pc = "done"
        /\ NumChannels(audio) = NumChannels(input)
        /\ Length(audio) = Length(input)
        /\ \A i \in 1..NumChannels(input) : \A t \in 1..Length(input) :
              audio[i][t] =
                  IF i > Len(LevelParams) THEN input[i][t]
                  ELSE IF LevelParams[i].kind = "number"
                  THEN RMul(input[i][t], LevelLinear(LevelParams[i].value))
                  ELSE IF t <= Curve_num_samples(LevelParams[i], sample_rate)
                  THEN RMul(input[i][t],
                            LevelLinear(Curve_flatten(LevelParams[i], sample_rate)[t]))
                  ELSE RMul(input[i][t], LevelLinear(LevelParams[i].endpoint))

\* a Gain curve shorter than the buffer on the first of two channels
C9_Witness ==
    /\ pc = "done"
    /\ transform.class = "Gain"
    /\ Len(transform.dBs) = 1
    /\ transform.dBs[1].kind = "Curve"
    /\ NumChannels(input) = 2
    /\ Curve_num_samples(transform.dBs[1], sample_rate) >= 1
    /\ Curve_num_samples(transform.dBs[1], sample_rate) < Length(input)
    /\ audio[1][1] = RMul(input[1][1], DB_to_Linear(transform.dBs[1].f[1]))
    /\ audio[1][Length(input)] = RMul(input[1][Length(input)], Rat(1, 10))
    /\ audio[1] # input[1]
    /\ audio[2] = input[2]

----------------------------------------------------------------------------
(* Pan *)

Pan_width == 200
Pan_panLaw == -6

\* a decibel value of the panning scheme: <<d>> for d dB, NegInf for np.log(0) = -inf
NegInf == <<>>

\* log2 of a rational that is a power of two
Log2(r) == CHOOSE k \in -16..16 : r = (IF k >= 0 THEN R(2 ^ k) ELSE Rat(1, 2 ^ (-k)))

\* Pan.pan_shape: np.log(x/Pan.width + 0.5)*(-Pan.panLaw / np.log(2))
pan_shape(x) ==
    LET arg == RAdd(Rat(x, Pan_width), Rat(1, 2))
    IN  IF arg = Zero THEN NegInf ELSE Some(Log2(arg) * (-Pan_panLaw))

LdB(x) == pan_shape(-x)
RdB(x) == pan_shape(x)
defaultStereo(x) == <<LdB(x), RdB(x)>>

\* DB_to_Linear on the scheme's values: 10^(-inf/20) = 0
Pan_linear(dB) == IF dB = NegInf THEN Zero ELSE DB_to_Linear(dB[1])

\* Audio.from_mono: the single channel repeated on n channels
Audio_from_mono(a, n) == [c \in 1..n |-> a[1]]

\* Pan.realise with a Curve: channel i (1-based) of the widened audio after
\* audio.audio[i,:len(dB)] *= DB_to_Linear(dB) and
\* audio.audio[i,len(dB):] *= DB_to_Linear(self.scheme(self.pan.endpoint())[i])
Pan_curve(ch, curve, rate, i) ==
    ScaleChannel(ch,
                 [t \in 1..Curve_num_samples(curve, rate) |->
                     Pan_linear(defaultStereo(Curve_flatten(curve, rate)[t])[i])],
                 Pan_linear(defaultStereo(curve.endpoint)[i]))

\* Pan.realise: the Audio's matrix when the call ends, and the error if it raised.
\* A number gives scalar dBs, and len(dB) raises TypeError in the loop's first
\* statement, after from_mono; neither a number nor a Curve leaves dBs unbound.
Pan_compute(pan, a, rate) ==
    IF NumChannels(a) # 1 THEN [err |-> "AssertionError", audio |-> a]
    ELSE IF pan.kind = "number"
    THEN [err |-> "TypeError", audio |-> Audio_from_mono(a, Len(defaultStereo(pan.value)))]
    ELSE IF pan.kind = "Curve"
    THEN IF Curve_shape_error(Curve_num_samples(pan, rate), Length(a))
         THEN [err |-> "ValueError", audio |-> Audio_from_mono(a, 2)]
         ELSE [err |-> "none",
               audio |-> [i \in 1..2 |-> Pan_curve(Audio_from_mono(a, 2)[i], pan, rate, i)]]
    ELSE [err |-> "UnboundLocalError", audio |-> a]

Pan_init ==
    /\ pc = "new"
    /\ ctor.class = "Pan"
    /\ transform' = [class |-> "Pan", pan |-> ctor.pan]
    /\ pc' = "ready"
    /\ UNCHANGED <<ctor, audio, input, other, sample_rate, calls, err>>

Pan_realise ==
    /\ pc = "ready"
    /\ transform.class = "Pan"
    /\ LET r == Pan_compute(transform.pan, audio, sample_rate)
       IN  /\ audio' = r.audio
           /\ err' = r.err
           /\ pc' = IF r.err = "none" THEN "done" ELSE "raised"
    /\ input' = audio
    /\ calls' = calls + 1
    /\ UNCHANGED <<ctor, transform, other, sample_rate>>

----------------------------------------------------------------------------
(* Pan: one pan value or curve, default stereo scheme, realised on one buffer *)

MaxPanLen == 3

PanCtors ==
    {[class |-> "Pan", pan |-> p] :
        p \in {Number(v) : v \in {-100, 0, 100}}
                \cup {Curve(f, e) : f \in SeqsOf({-100, 100}, 0, MaxCurve), e \in {-100, 100}}
                \cup {Unsupported}}

InitPan ==
    /\ ctor \in PanCtors
    /\ transform = NoTransform
    /\ audio \in Matrices(1, 0, MaxPanLen, {1, -2}) \cup {Ramp(2, n, 1) : n \in 0..MaxPanLen}
    /\ input = audio
    /\ other = <<>>
    /\ sample_rate \in SampleRates
    /\ calls = 0
    /\ pc = "new"
    /\ err = "none"

NextPan ==
    \/ Pan_init
    \/ Pan_realise

SpecPan == InitPan /\ [][NextPan]_vars

----------------------------------------------------------------------------
(* Claims about Pan, checked under SpecPan *)

\* C8: Pan.realise on a mono buffer with a scalar pan p and the default stereo
\* scheme completes and leaves two channels, channel i the mono input scaled
\* by the linear gain of the scheme's i-th decibel value for p; at p = 0 the
\* two decibel values are equal and both output channels are identical.
C8_PanScalar ==
    (calls = 1 /\ transform.class = "Pan" /\ transform.pan.kind = "number"
               /\ NumChannels(input) = 1) =>
        /\ pc = "done"
        /\ NumChannels(audio) = 2
        /\ Length(audio) = Length(input)
        /\ transform.pan.value # 0 =>
              \A i \in 1..2 : \A t \in 1..Length(input) :
                  audio[i][t] = RMul(input[1][t],
                                     Pan_linear(defaultStereo(transform.pan.value)[i]))
        /\ transform.pan.value = 0 =>
              /\ defaultStereo(0)[1] = defaultStereo(0)[2]
              /\ audio[1] = audio[2]

----------------------------------------------------------------------------
(* Limiter *)

\* Limiter.__init__: at most one max_* and one min_* argument may be given
\* (assert), and the dB ones are not implemented
Limiter_init_error(args) ==
    LET given(x) == IF x = None THEN 0 ELSE 1
    IN  IF given(args.max_amplitude) + given(args.max_ratio) + given(args.max_dB) > 1
        THEN "AssertionError"
        ELSE IF given(args.min_amplitude) + given(args.min_ratio) + given(args.min_dB) > 1
        THEN "AssertionError"
        ELSE IF args.max_dB # None \/ args.min_dB # None
        THEN "NotImplementedError"
        ELSE "none"

\* the attributes Limiter.__init__ sets
Limiter_new(args) ==
    [class |-> "Limiter",
     is_min |-> ~(args.min_amplitude = None /\ args.min_ratio = None /\ args.min_dB = None),
     is_max |-> ~(args.max_amplitude = None /\ args.max_ratio = None /\ args.max_dB = None),
     max_amplitude |-> args.max_amplitude, max_ratio |-> args.max_ratio, max_dB |-> args.max_dB,
     min_amplitude |-> args.min_amplitude, min_ratio |-> args.min_ratio, min_dB |-> args.min_dB]

Limiter_init ==
    /\ pc = "new"
    /\ ctor.class = "Limiter"
    /\ IF Limiter_init_error(ctor) # "none"
       THEN /\ err' = Limiter_init_error(ctor)
            /\ pc' = "raised"
            /\ UNCHANGED transform
       ELSE /\ transform' = Limiter_new(ctor)
            /\ pc' = "ready"
            /\ UNCHANGED err
    /\ UNCHANGED <<ctor, audio, input, other, sample_rate, calls>>

\* np.max(np.abs(audio.audio)), for a matrix with at least one sample
MaxAbs(a) ==
    LET S == {RAbs(a[c][t]) : c \in 1..NumChannels(a), t \in 1..Length(a)}
    IN  CHOOSE v \in S : \A w \in S : RLe(w, v)

\* np.max raises ValueError on a matrix without samples
IsEmpty(a) == Length(a) = 0

\* Limiter_max_amplitude computing the ratio's amplitude only while the
\* attribute is still None, and keeping it afterwards
Limiter_max_amplitude_kept(self, a) ==
    IF self.max_ratio # None /\ self.max_amplitude = None
    THEN Some(RMul(self.max_ratio[1], MaxAbs(a)))
    ELSE self.max_amplitude

\* self.max_amplitude after: if self.max_ratio is not None:
\*     self.max_amplitude = self.max_ratio*np.max(np.abs(audio.audio))
Limiter_max_amplitude(self, a) ==
    IF self.max_ratio # None
    THEN Some(RMul(self.max_ratio[1], MaxAbs(a)))
    ELSE self.max_amplitude

\* self.min_amplitude after: if self.min_ratio is not None:
\*     self.min_amplitude = self.min_ratio*np.max(np.abs(audio.audio))
Limiter_min_amplitude(self, a) ==
    IF self.min_ratio # None
    THEN Some(RMul(self.min_ratio[1], MaxAbs(a)))
    ELSE self.min_amplitude

\* np.clip(audio.audio, -m, m): minimum(maximum(x, -m), m)
Limiter_clip(a, m) ==
    [c \in 1..NumChannels(a) |-> [t \in 1..Length(a) |-> RMin(RMax(a[c][t], RNeg(m)), m)]]

\* np.sign(audio.audio) * np.clip(np.abs(audio.audio), a_min=m, a_max=None)
Limiter_floor(a, m) ==
    [c \in 1..NumChannels(a) |-> [t \in 1..Length(a) |->
        RMul(RSign(a[c][t]), RMax(RAbs(a[c][t]), m))]]

\* Limiter.realise: the Audio's matrix and the instance's attributes when the
\* call ends, and the error if it raised
Limiter_compute(self, a) ==
    LET max_raises == self.is_max /\ self.max_ratio # None /\ IsEmpty(a)
        self1 == IF self.is_max /\ ~max_raises
                 THEN [self EXCEPT !.max_amplitude = Limiter_max_amplitude(self, a)]
                 ELSE self
        a1 == IF self.is_max /\ ~max_raises THEN Limiter_clip(a, self1.max_amplitude[1]) ELSE a
        min_raises == self.is_min /\ self.min_ratio # None /\ IsEmpty(a1)
        self2 == IF self.is_min /\ ~min_raises
                 THEN [self1 EXCEPT !.min_amplitude = Limiter_min_amplitude(self1, a1)]
                 ELSE self1
    IN  IF max_raises THEN [err |-> "ValueError", audio |-> a, self |-> self]
        ELSE IF min_raises THEN [err |-> "ValueError", audio |-> a1, self |-> self1]
        ELSE [err |-> "none", self |-> self2,
              audio |-> IF self.is_min THEN Limiter_floor(a1, self2.min_amplitude[1]) ELSE a1]

Limiter_realise ==
    /\ pc = "ready"
    /\ transform.class = "Limiter"
    /\ LET r == Limiter_compute(transform, audio)
       IN  /\ audio' = r.audio
           /\ transform' = r.self
           /\ err' = r.err
           /\ pc' = IF r.err = "none" THEN "done" ELSE "raised"
    /\ input' = audio
    /\ calls' = calls + 1
    /\ UNCHANGED <<ctor, other, sample_rate>>

----------------------------------------------------------------------------
(* Reuse: one transform instance realised on one Audio, then on a second one *)

\* the same instance is bound to the next signal: its Audio is the one realise
\* is called with next
NextAudio ==
    /\ pc = "done"
    /\ calls = 1
    /\ audio' = other
    /\ other' = audio
    /\ pc' = "ready"
    /\ UNCHANGED <<ctor, transform, input, sample_rate, calls, err>>

MaxReuseLen == 2

LimiterCtors ==
    {[class |-> "Limiter",
      max_amplitude |-> xa, max_ratio |-> xr, max_dB |-> xd,
      min_amplitude |-> na, min_ratio |-> nr, min_dB |-> nd] :
        xa \in Optional({R(2)}), xr \in Optional({Rat(1, 2)}), xd \in Optional({R(-6)}),
        na \in Optional({R(2)}), nr \in Optional({Rat(1, 2)}), nd \in Optional({R(-6)})}

ReuseCtors ==
    LimiterCtors
        \cup {c \in GainCtors : Len(c.dBs) = 1}
        \cup {c \in AmplitudeCtors : Len(c.amps) = 1}
        \cup {c \in RepanCtors : Len(c.channels) = 2}
        \cup {c \in FIRCtors : Len(c.coefficients) = 2}
        \cup {c \in IIRCtors : Len(c.feedforward) = 1}

ReuseBuffers == Matrices(1, 0, MaxReuseLen, {-3, 1}) \cup Matrices(2, 1, 1, {-3, 1})

InitReuse ==
    /\ ctor \in ReuseCtors
    /\ transform = NoTransform
    /\ audio \in ReuseBuffers
    /\ input = audio
    /\ other \in ReuseBuffers
    /\ sample_rate = 1000
    /\ calls = 0
    /\ pc = "new"
    /\ err = "none"

NextReuse ==
    \/ Limiter_init
    \/ Gain_init
    \/ Amplitude_init
    \/ Repan_init
    \/ FIR_init
    \/ IIR_init
    \/ Limiter_realise
    \/ Gain_realise
    \/ Amplitude_realise
    \/ Repan_realise
    \/ FIR_realise
    \/ IIR_realise
    \/ NextAudio

SpecReuse == InitReuse /\ [][NextReuse]_vars

----------------------------------------------------------------------------
(* Claims about reuse, checked under SpecReuse *)

\* a freshly constructed instance for the constructor call c
Fresh(c) ==
    CASE c.class = "Limiter" -> Limiter_new(c)
      [] c.class = "Gain" -> [class |-> "Gain", dBs |-> c.dBs]
      [] c.class = "Amplitude" -> [class |-> "Amplitude", amps |-> c.amps]
      [] c.class = "Repan" -> [class |-> "Repan", channels |-> c.channels]
      [] c.class = "FIR" -> [class |-> "FIR", h |-> FIR_h(c.coefficients)]
      [] c.class = "IIR" -> [class |-> "IIR", b |-> IIR_b(c.feedforward, c.feedback),
                             a |-> IIR_a(c.feedforward, c.feedback)]

\* what realise of the instance self does to an Audio holding a
Realised(self, a) ==
    CASE self.class = "Limiter" -> Limiter_compute(self, a)
      [] self.class = "Gain" -> Gain_loop(self.dBs, a, sample_rate, 1)
      [] self.class = "Amplitude" -> Amplitude_loop(self.amps, a, sample_rate, 1)
      [] self.class = "Repan" -> Repan_compute(self.channels, a)
      [] self.class = "FIR" -> FIR_parallel_copies(self.h, a)
      [] self.class = "IIR" -> IIR_compute(self.b, self.a, a)

\* the second call leaves its Audio as a fresh, equally parameterised instance would
ReuseLikeFresh ==
    calls = 2 =>
        /\ audio = Realised(Fresh(ctor), input).audio
        /\ err = Realised(Fresh(ctor), input).err

\* a realise call changes no Audio but the one passed to it
ReuseFrame == calls' = calls + 1 => other' = other

\* C7: realising an instance on A and then on B leaves B with the content a
\* freshly constructed, equally parameterised instance gives on B alone, and
\* no realise call changes a buffer other than the one passed to it.
C7_Stateless == [](ReuseLikeFresh) /\ [][ReuseFrame]_vars

\* a Limiter(max_ratio) whose amplitude attribute, set by the call on A, differs
\* from the one the call on B needs
C7_Witness ==
    /\ calls = 2
    /\ pc = "done"
    /\ transform.class = "Limiter"
    /\ transform.max_ratio # None
    /\ ~IsEmpty(other)
    /\ MaxAbs(other) # transform.max_amplitude[1]
    /\ audio # input

----------------------------------------------------------------------------
(* ADSR *)

\* Line(begin, end, duration).flatten(sample_rate): num_samples values going
\* linearly from begin towards end, end not included
Line_flatten(begin, end, duration, rate) ==
    LET k == num_samples(duration, rate)
    IN  [t \in 1..k |-> RAdd(begin, RMul(RSub(end, begin), Rat(t - 1, k)))]

\* Constant(value, duration).flatten(sample_rate)
Constant_flatten(value, duration, rate) ==
    [t \in 1..num_samples(duration, rate) |-> value]

\* ADSR.__init__ stores its five arguments
ADSR_init ==
    /\ pc = "new"
    /\ ctor.class = "ADSR"
    /\ transform' = [class |-> "ADSR", attack |-> ctor.attack, hold |-> ctor.hold,
                     decay |-> ctor.decay, sustain |-> ctor.sustain,
                     release |-> ctor.release]
    /\ pc' = "ready"
    /\ UNCHANGED <<ctor, audio, input, other, sample_rate, calls, err>>

\* env_start = Line(0, 1, attack) | Constant(1, hold) | Line(1, sustain, decay),
\* flattened: the three segments one after the other
ADSR_env_start(self, rate) ==
    Line_flatten(Zero, One, self.attack, rate)
        \o Constant_flatten(One, self.hold, rate)
        \o Line_flatten(One, self.sustain, self.decay, rate)

\* env_end = Line(sustain, 0, duration=release), flattened
ADSR_env_end(self, rate) == Line_flatten(self.sustain, Zero, self.release, rate)

\* a[:, lo:hi] *= vals, for a slice of as many samples as vals has, or any
\* slice when vals is a single value (0-based lo, hi exclusive)
MulSlice(a, lo, hi, vals) ==
    [c \in 1..NumChannels(a) |->
        [t \in 1..Length(a) |->
            IF lo < t /\ t <= hi
            THEN RMul(a[c][t], IF Len(vals) = 1 THEN vals[1] ELSE vals[t - lo])
            ELSE a[c][t]]]

\* numpy cannot multiply a slice of m samples in place by k values unless
\* k = m or k = 1
Slice_shape_error(m, k) == k # m /\ k # 1

\* the slice [:length_start] of n samples
ADSR_start_stop(length_start, n) == IF length_start < n THEN length_start ELSE n

\* the first index of the slice [-length_end:] of n samples (-0 is 0)
ADSR_end_start(length_end, n) ==
    IF length_end = 0 \/ length_end > n THEN 0 ELSE n - length_end

\* audio.audio[:, length_start:-length_end] *= self.sustain
ADSR_sustain(a, length_start, length_end, sustain) ==
    [c \in 1..NumChannels(a) |->
        [t \in 1..Length(a) |->
            IF length_start < t /\ t <= ADSR_end_start(length_end, Length(a))
            THEN RMul(a[c][t], sustain)
            ELSE a[c][t]]]

\* ADSR.realise with the start envelope cut where the release envelope begins
ADSR_compute_clipped(self, a, rate) ==
    LET n == Length(a)
        env_start == ADSR_env_start(self, rate)
        env_end == ADSR_env_end(self, rate)
        length_start == Len(env_start)
        length_end == Len(env_end)
        cut == IF ADSR_end_start(length_end, n) < ADSR_start_stop(length_start, n)
               THEN ADSR_end_start(length_end, n)
               ELSE ADSR_start_stop(length_start, n)
        a1 == MulSlice(a, 0, cut, env_start)
        a2 == ADSR_sustain(a1, length_start, length_end, self.sustain)
        a3 == MulSlice(a2, ADSR_end_start(length_end, n), n, env_end)
    IN  IF Slice_shape_error(ADSR_start_stop(length_start, n), length_start)
        THEN [err |-> "ValueError", audio |-> a]
        ELSE IF Slice_shape_error(n - ADSR_end_start(length_end, n), length_end)
        THEN [err |-> "ValueError", audio |-> a2]
        ELSE [err |-> "none", audio |-> a3]

\* ADSR.realise: the Audio's matrix when the call ends, and the error if it
\* raised; the three statements run in order, each on what the one before left
ADSR_compute(self, a, rate) ==
    LET n == Length(a)
        env_start == ADSR_env_start(self, rate)
        env_end == ADSR_env_end(self, rate)
        length_start == Len(env_start)
        length_end == Len(env_end)
        a1 == MulSlice(a, 0, ADSR_start_stop(length_start, n), env_start)
        a2 == ADSR_sustain(a1, length_start, length_end, self.sustain)
        a3 == MulSlice(a2, ADSR_end_start(length_end, n), n, env_end)
    IN  IF Slice_shape_error(ADSR_start_stop(length_start, n), length_start)
        THEN [err |-> "ValueError", audio |-> a]
        ELSE IF Slice_shape_error(n - ADSR_end_start(length_end, n), length_end)
        THEN [err |-> "ValueError", audio |-> a2]
        ELSE [err |-> "none", audio |-> a3]

ADSR_realise ==
    /\ pc = "ready"
    /\ transform.class = "ADSR"
    /\ LET r == ADSR_compute(transform, audio, sample_rate)
       IN  /\ audio' = r.audio
           /\ err' = r.err
           /\ pc' = IF r.err = "none" THEN "done" ELSE "raised"
    /\ input' = audio
    /\ calls' = calls + 1
    /\ UNCHANGED <<ctor, transform, other, sample_rate>>

----------------------------------------------------------------------------
(* ADSR: one envelope realised on one buffer *)

\* durations in ms
MaxSegment == 1
MaxRelease == 2
MaxADSRLen == 4
Sustains == {Zero, Rat(1, 2)}

ADSRCtors ==
    {[class |-> "ADSR", attack |-> at, hold |-> h, decay |-> d, sustain |-> s, release |-> r] :
        at \in 0..MaxSegment, h \in 0..MaxSegment, d \in 0..MaxSegment,
        s \in Sustains, r \in 0..MaxRelease}

InitADSR ==
    /\ ctor \in ADSRCtors
    /\ transform = NoTransform
    /\ audio \in Matrices(1, 0, MaxADSRLen, {1, 2}) \cup Matrices(2, 1, 2, {1, -3})
    /\ input = audio
    /\ other = <<>>
    /\ sample_rate \in SampleRates
    /\ calls = 0
    /\ pc = "new"
    /\ err = "none"

NextADSR ==
    \/ ADSR_init
    \/ ADSR_realise

SpecADSR == InitADSR /\ [][NextADSR]_vars

----------------------------------------------------------------------------
(* Claims about ADSR, checked under SpecADSR *)

ADSR_n == Length(input)
ADSR_s == Len(ADSR_env_start(ctor, sample_rate))
ADSR_r == Len(ADSR_env_end(ctor, sample_rate))

\* realise has been called with s <= n, r <= n and s + r > n
ADSR_overlapping ==
    /\ ctor.class = "ADSR"
    /\ calls > 0
    /\ ADSR_s <= ADSR_n
    /\ ADSR_r <= ADSR_n
    /\ ADSR_s + ADSR_r > ADSR_n

\* sample t (0-based) of the release envelope laid on the last r samples
ADSR_release_at(t) == ADSR_env_end(ctor, sample_rate)[t - (ADSR_n - ADSR_r) + 1]

\* C13, as stated: with s <= n, r <= n and s + r > n the call completes and
\* each sample of the last r, the overlap [n-r, s) included, is the input
\* sample times the release value alone.
C13_ADSROverwriteOriginal ==
    ADSR_overlapping =>
        /\ pc = "done"
        /\ \A c \in 1..NumChannels(input) : \A t \in (ADSR_n - ADSR_r)..(ADSR_n - 1) :
              At(audio, c - 1, t) = RMul(At(input, c - 1, t), ADSR_release_at(t))

\* C13, amended: with s <= n, r <= n and s + r > n the call completes, the
\* release envelope multiplies exactly the last r samples, and each sample in
\* the overlap [n-r, s) is the input sample times the start envelope's value
\* times the release value (the segments multiply one after the other);
\* samples before n-r carry the start envelope alone, samples from s on the
\* release envelope alone.
C13_ADSROverlapProduct ==
    ADSR_overlapping =>
        /\ pc = "done"
        /\ \A c \in 1..NumChannels(input) : \A t \in 0..(ADSR_n - 1) :
              At(audio, c - 1, t) =
                  RMul(RMul(At(input, c - 1, t),
                            IF t < ADSR_s
                            THEN ADSR_env_start(ctor, sample_rate)[t + 1] ELSE One),
                       IF t >= ADSR_n - ADSR_r THEN ADSR_release_at(t) ELSE One)

\* an overlap sample where the two readings differ: the start envelope is not
\* 1 there and the release value times the input is not 0
C13_Witness ==
    /\ ADSR_overlapping
    /\ pc = "done"
    /\ \E t \in (ADSR_n - ADSR_r)..(ADSR_s - 1) :
          /\ ADSR_env_start(ctor, sample_rate)[t + 1] # One
          /\ ADSR_env_start(ctor, sample_rate)[t + 1] # Zero
          /\ RMul(At(input, 0, t), ADSR_release_at(t)) # Zero
          /\ At(audio, 0, t) =
                RMul(RMul(At(input, 0, t), ADSR_env_start(ctor, sample_rate)[t + 1]),
                     ADSR_release_at(t))

----------------------------------------------------------------------------
(* First-order designers: SimpleLPF, SimpleHPF, SimpleLowShelf, SimpleHighShelf *)

\* the designers' __init__ store their arguments and check nothing
\* (they do not call IIR.__init__)
SimpleLPF_init ==
    /\ pc = "new"
    /\ ctor.class = "SimpleLPF"
    /\ transform' = [class |-> "SimpleLPF", cutoff |-> ctor.cutoff]
    /\ pc' = "ready"
    /\ UNCHANGED <<ctor, audio, input, other, sample_rate, calls, err>>

SimpleHPF_init ==
    /\ pc = "new"
    /\ ctor.class = "SimpleHPF"
    /\ transform' = [class |-> "SimpleHPF", cutoff |-> ctor.cutoff]
    /\ pc' = "ready"
    /\ UNCHANGED <<ctor, audio, input, other, sample_rate, calls, err>>

SimpleLowShelf_init ==
    /\ pc = "new"
    /\ ctor.class = "SimpleLowShelf"
    /\ transform' = [class |-> "SimpleLowShelf", cutoff |-> ctor.cutoff, gain |-> ctor.gain]
    /\ pc' = "ready"
    /\ UNCHANGED <<ctor, audio, input, other, sample_rate, calls, err>>

SimpleHighShelf_init ==
    /\ pc = "new"
    /\ ctor.class = "SimpleHighShelf"
    /\ transform' = [class |-> "SimpleHighShelf", cutoff |-> ctor.cutoff, gain |-> ctor.gain]
    /\ pc' = "ready"
    /\ UNCHANGED <<ctor, audio, input, other, sample_rate, calls, err>>

\* Fc/2 = pi * cutoff / sample_rate, in units of pi/4 (the model's cutoffs
\* make it a whole number of them)
Simple_quarter_turns(cutoff, rate) == (4 * cutoff) \div rate

\* np.tan(Fc/2): 0 at multiples of pi, 1 at pi/4 + k*pi.  At pi/2 + k*pi the
\* float64 tangent is a finite number of magnitude about 1.6e16, None here.
\* np.tan raises for no angle.
Simple_tan(cutoff, rate) ==
    CASE (4 * cutoff) % rate = 0 /\ Simple_quarter_turns(cutoff, rate) % 4 = 0 -> Some(Zero)
      [] (4 * cutoff) % rate = 0 /\ Simple_quarter_turns(cutoff, rate) % 4 = 1 -> Some(One)
      [] (4 * cutoff) % rate = 0 /\ Simple_quarter_turns(cutoff, rate) % 4 = 2 -> None

\* beta = (1 - np.tan(Fc/2)) / (1 + np.tan(Fc/2)); with the tangent of
\* magnitude 1.6e16 both 1 - t and 1 + t round to -t and t, and beta is -1
Simple_beta(cutoff, rate) ==
    LET t == Simple_tan(cutoff, rate)
    IN  IF t = None THEN R(-1)
        ELSE RDiv(RSub(One, t[1]), RAdd(One, t[1]))

Simple_half(p) == RDiv(p, R(2))

\* a = (1, -beta), the same in the four designers
Simple_a(beta) == <<One, RNeg(beta)>>

\* SimpleLPF.coefficients: b = ((1-beta)/2, (1-beta)/2)
SimpleLPF_b(beta) ==
    <<Simple_half(RSub(One, beta)), Simple_half(RSub(One, beta))>>

\* SimpleHPF.coefficients: b = ((1+beta)/2, -(1+beta)/2)
SimpleHPF_b(beta) ==
    <<Simple_half(RAdd(One, beta)), RNeg(Simple_half(RAdd(One, beta)))>>

\* SimpleLowShelf.coefficients:
\* b = ((1 + gain + (1-gain)*beta)/2, -(1 - gain + (1+gain)*beta)/2)
SimpleLowShelf_b(beta, gain) ==
    <<Simple_half(RAdd(RAdd(One, gain), RMul(RSub(One, gain), beta))),
      RNeg(Simple_half(RAdd(RSub(One, gain), RMul(RAdd(One, gain), beta))))>>

\* SimpleHighShelf.coefficients:
\* b = ((1 + gain + (gain-1)*beta)/2, (1 - gain - (1+gain)*beta)/2)
SimpleHighShelf_b(beta, gain) ==
    <<Simple_half(RAdd(RAdd(One, gain), RMul(RSub(gain, One), beta))),
      Simple_half(RSub(RSub(One, gain), RMul(RAdd(One, gain), beta)))>>

\* self.coefficients(sample_rate) of a designer: always returns a pair (b, a)
Simple_coefficients(self, rate) ==
    LET beta == Simple_beta(self.cutoff, rate)
    IN  [b |-> CASE self.class = "SimpleLPF" -> SimpleLPF_b(beta)
                 [] self.class = "SimpleHPF" -> SimpleHPF_b(beta)
                 [] self.class = "SimpleLowShelf" -> SimpleLowShelf_b(beta, self.gain)
                 [] self.class = "SimpleHighShelf" -> SimpleHighShelf_b(beta, self.gain),
         a |-> Simple_a(beta)]

SimpleClasses == {"SimpleLPF", "SimpleHPF", "SimpleLowShelf", "SimpleHighShelf"}

\* IIR.realise, inherited by the designers: b, a = self.coefficients(audio.sample_rate)
Simple_realise ==
    /\ pc = "ready"
    /\ transform.class \in SimpleClasses
    /\ LET k == Simple_coefficients(transform, sample_rate)
           r == IIR_compute(k.b, k.a, audio)
       IN  /\ audio' = r.audio
           /\ err' = r.err
           /\ pc' = IF r.err = "none" THEN "done" ELSE "raised"
    /\ input' = audio
    /\ calls' = calls + 1
    /\ UNCHANGED <<ctor, transform, other, sample_rate>>

\* cutoffs in Hz: negative, zero, and 500 and 1000, which are the Nyquist
\* frequency and the sample rate at 1000 Hz, inside the band and the Nyquist
\* frequency at 2000 Hz
SimpleCutoffs == {-1000, 0, 500, 1000}
SimpleGains == {R(0), R(2)}
MaxSimpleLen == 3

SimpleCtors ==
    {[class |-> c, cutoff |-> f] : c \in {"SimpleLPF", "SimpleHPF"}, f \in SimpleCutoffs}
    \cup {[class |-> c, cutoff |-> f, gain |-> g] :
            c \in {"SimpleLowShelf", "SimpleHighShelf"}, f \in SimpleCutoffs, g \in SimpleGains}

InitSimple ==
    /\ ctor \in SimpleCtors
    /\ transform = NoTransform
    /\ audio \in Matrices(1, 0, MaxSimpleLen, {0, 1})
    /\ input = audio
    /\ other = <<>>
    /\ sample_rate \in SampleRates
    /\ calls = 0
    /\ pc = "new"
    /\ err = "none"

NextSimple ==
    \/ SimpleLPF_init
    \/ SimpleHPF_init
    \/ SimpleLowShelf_init
    \/ SimpleHighShelf_init
    \/ Simple_realise

SpecSimple == InitSimple /\ [][NextSimple]_vars

\* the cutoff is outside (0, Nyquist) at this sample rate
Simple_out_of_band(cutoff, rate) == cutoff <= 0 \/ 2 * cutoff >= rate

\* C11: a designer whose cutoff is <= 0 or >= sample_rate/2 is rejected:
\* once realise has been called on it, the call has raised and the buffer
\* is as it was.
C11_CutoffRejected ==
    (/\ ctor.class \in SimpleClasses
     /\ Simple_out_of_band(ctor.cutoff, sample_rate)
     /\ calls > 0)
        => (pc = "raised" /\ audio = input)

----------------------------------------------------------------------------
(* Claims about the filters, checked under SpecFilter *)

\* y[t] = sum_i h[i]*x[t-i], x taken as 0 before the start, for one channel
Convolution(h, x) ==
    [t \in 1..Len(x) |->
        RSum([i \in 1..Len(h) |-> IF t - (i - 1) >= 1 THEN RMul(h[i], x[t - (i - 1)]) ELSE Zero])]

\* y[t] = sum_n b[n]*x[t-n] - sum_{m>=1} a[m]*y[t-m], x and y taken as 0 at
\* negative indices: the first t samples of one channel
RECURSIVE DifferenceEquation(_, _, _, _)
DifferenceEquation(b, a, x, t) ==
    IF t = 0 THEN <<>>
    ELSE LET y == DifferenceEquation(b, a, x, t - 1)
             ff == RSum([n \in 1..Len(b) |->
                        IF t - (n - 1) >= 1 THEN RMul(b[n], x[t - (n - 1)]) ELSE Zero])
             fb == RSum([m \in 1..(Len(a) - 1) |->
                        IF t - m >= 1 THEN RMul(a[m + 1], y[t - m]) ELSE Zero])
         IN  Append(y, RSub(ff, fb))

\* a single-channel unit impulse: 1 followed by zeros
IsImpulse(a) ==
    /\ NumChannels(a) = 1
    /\ Length(a) >= 1
    /\ \A t \in 1..Length(a) : a[1][t] = (IF t = 1 THEN One ELSE Zero)

\* C1: IIR(b, (1,)).realise leaves the buffer with the samples of the FIR
\* computation with the same taps b, on every channel and at every index.
C1_IIRNoFeedbackIsFIR ==
    (pc = "done" /\ transform.class = "IIR" /\ transform.a = <<One>>)
        => /\ audio = FIR_parallel_copies(transform.b, input).audio
           /\ \A c \in 1..NumChannels(input) : audio[c] = Convolution(transform.b, input[c])

\* C2: after IIR.realise every channel holds the difference equation's output,
\* sample t aligned with input sample t, the first sample b[0]*x[0], length n.
C2_IIRDifferenceEquation ==
    (pc = "done" /\ transform.class = "IIR")
        => /\ NumChannels(audio) = NumChannels(input)
           /\ Length(audio) = Length(input)
           /\ \A c \in 1..NumChannels(input) :
                 /\ audio[c] = DifferenceEquation(transform.b, transform.a, input[c], Length(input))
                 /\ Length(input) >= 1 => audio[c][1] = RMul(transform.b[1], input[c][1])

\* C3: FIR.realise on a single-channel unit impulse of length n >= |h| completes
\* and leaves h in the first |h| samples and 0 after them, the length still n;
\* MovingAverage(3) on [1,0,0,0,0] yields [1/3,1/3,1/3,0,0].
C3_FIRImpulseResponse ==
    /\ (/\ calls = 1
        /\ transform.class \in {"FIR", "MovingAverage"}
        /\ Len(transform.h) >= 1
        /\ IsImpulse(input)
        /\ Length(input) >= Len(transform.h))
          => /\ pc = "done"
             /\ NumChannels(audio) = 1
             /\ Length(audio) = Length(input)
             /\ \A t \in 1..Length(input) :
                   audio[1][t] = (IF t <= Len(transform.h) THEN transform.h[t] ELSE Zero)
    /\ (/\ calls = 1
        /\ ctor = [class |-> "MovingAverage", width |-> 3]
        /\ input = <<RSeq(<<1, 0, 0, 0, 0>>)>>)
          => audio = <<(<<Rat(1, 3), Rat(1, 3), Rat(1, 3), Zero, Zero>>)>>

C3_Witness ==
    /\ pc = "done"
    /\ ctor = [class |-> "MovingAverage", width |-> 3]
    /\ input = <<RSeq(<<1, 0, 0, 0, 0>>)>>
    /\ audio = <<(<<Rat(1, 3), Rat(1, 3), Rat(1, 3), Zero, Zero>>)>>

\* C10: FIR(*h) with sum(h) /= 0 stores each tap divided by sum(h), the stored
\* taps summing to 1; IIR(b, a) with a[0] /= 0 stores b and a divided by a[0],
\* the stored a[0] being 1; with sum(h) = 0 or a[0] = 0 construction raises and
\* no filter object results.
C10_ConstructionNormalizes ==
    /\ (pc # "new" /\ ctor.class = "FIR") =>
          IF RSum(ctor.coefficients) # Zero
          THEN /\ transform.class = "FIR"
               /\ Len(transform.h) = Len(ctor.coefficients)
               /\ \A i \in 1..Len(transform.h) :
                     transform.h[i] = RDiv(ctor.coefficients[i], RSum(ctor.coefficients))
               /\ RSum(transform.h) = One
          ELSE /\ pc = "raised"
               /\ err # "none"
               /\ calls = 0
               /\ transform = NoTransform
    /\ (pc # "new" /\ ctor.class = "IIR") =>
          IF ctor.feedback[1] # Zero
          THEN /\ transform.class = "IIR"
               /\ Len(transform.b) = Len(ctor.feedforward)
               /\ Len(transform.a) = Len(ctor.feedback)
               /\ \A i \in 1..Len(transform.b) :
                     transform.b[i] = RDiv(ctor.feedforward[i], ctor.feedback[1])
               /\ \A i \in 1..Len(transform.a) :
                     transform.a[i] = RDiv(ctor.feedback[i], ctor.feedback[1])
               /\ transform.a[1] = One
          ELSE /\ pc = "raised"
               /\ err # "none"
               /\ calls = 0
               /\ transform = NoTransform

====
